---- MODULE Spec2Model ----
(***************************************************************************)
(* Model of the record generation and batch update engine of main.py:      *)
(* the age / date-of-birth coherence functions, the per-entity record      *)
(* generators, the session dictionary and update_last_generated.           *)
(*                                                                         *)
(* Python values are modelled as follows.                                  *)
(*   date            a record [year, month, day]                           *)
(*   str             a sequence of one-character strings                   *)
(*   dict            a sequence of [k |-> key, v |-> value] in insertion   *)
(*                   order (Python dicts keep insertion order)             *)
(*   record value    [t |-> "int", i |-> n, s |-> <<>>] or                 *)
(*                   [t |-> "str", i |-> 0, s |-> characters]              *)
(*   optional value  [has |-> FALSE, ...] or [has |-> TRUE, v |-> value]   *)
(* datetime.today() is the variable today: the current date does not       *)
(* change during a session.  An uncaught exception ends the process: no     *)
(* command follows it (raised), and the session keeps what had been         *)
(* written to it by then.                                                   *)
(***************************************************************************)
EXTENDS Integers, Sequences, FiniteSets, TLC

VARIABLES today, last_generated, last_type, op, args, raised, warned, generates, updates,
          bAge, bDob, bPath

vars == <<today, last_generated, last_type, op, args, raised, warned, generates, updates,
          bAge, bDob, bPath>>

(***************************************************************************)
(* datetime.date: proleptic Gregorian calendar arithmetic                  *)
(***************************************************************************)
IsLeap(y) == (y % 4 = 0) /\ ((y % 100 # 0) \/ (y % 400 = 0))

DaysInMonth(y, m) ==
    IF m = 2 THEN (IF IsLeap(y) THEN 29 ELSE 28)
    ELSE IF m \in {4, 6, 9, 11} THEN 30 ELSE 31

DaysBeforeYear(y) ==
    (y - 1) * 365 + ((y - 1) \div 4) - ((y - 1) \div 100) + ((y - 1) \div 400)

\* days of the year before the first of each month, in a common year
DAYS_BEFORE_MONTH == <<0, 31, 59, 90, 120, 151, 181, 212, 243, 273, 304, 334>>

DaysBeforeMonth(y, m) ==
    DAYS_BEFORE_MONTH[m] + (IF m > 2 /\ IsLeap(y) THEN 1 ELSE 0)

Date(y, m, d) == [year |-> y, month |-> m, day |-> d]

IsValidDate(y, m, d) ==
    /\ y \in 1..9999
    /\ m \in 1..12
    /\ d >= 1
    /\ d <= DaysInMonth(y, m)

\* date.toordinal()
ToOrdinal(dt) == DaysBeforeYear(dt.year) + DaysBeforeMonth(dt.year, dt.month) + dt.day

\* date.fromordinal(n)
FromOrdinal(n) ==
    LET n0   == n - 1
        n400 == n0 \div 146097
        r400 == n0 % 146097
        n100 == r400 \div 36524
        r100 == r400 % 36524
        n4   == r100 \div 1461
        r4   == r100 % 1461
        n1   == r4 \div 365
        r1   == r4 % 365
        y    == n400 * 400 + 1 + n100 * 100 + n4 * 4 + n1
    IN  IF n1 = 4 \/ n100 = 4 THEN Date(y - 1, 12, 31)
        ELSE LET guess == (r1 + 50) \div 32
                 m     == IF DaysBeforeMonth(y, guess) > r1 THEN guess - 1 ELSE guess
             IN  Date(y, m, r1 - DaysBeforeMonth(y, m) + 1)

\* date - timedelta(days=n)
MinusDays(dt, n) == FromOrdinal(ToOrdinal(dt) - n)

\* date + timedelta(days=n)
PlusDays(dt, n) == FromOrdinal(ToOrdinal(dt) + n)

\* (a - b).days
DaysBetween(a, b) == ToOrdinal(a) - ToOrdinal(b)

\* date < date
DateLess(a, b) == ToOrdinal(a) < ToOrdinal(b)

\* (m1, d1) < (m2, d2), Python tuple comparison
TupleLess(m1, d1, m2, d2) == (m1 < m2) \/ (m1 = m2 /\ d1 < d2)

Max(a, b) == IF a >= b THEN a ELSE b
Min(a, b) == IF a <= b THEN a ELSE b

(***************************************************************************)
(* Bounds of the model                                                     *)
(***************************************************************************)
\* random.randint(lo, hi) is explored on the values within EdgeWidth of lo,
\* of hi and of the midpoint
EdgeWidth == 1
\* number of consecutive current dates explored for generate_birthdate_for_age
TodaySpan == 1461
\* records per batch, fields added and fields removed per update
MaxCount == 1
MaxAdd == 2
MaxRemove == 1
\* fields of a generate command, updates after one generate command
MaxFields == 2
MaxUpdates == 2
\* generate commands per session
MaxGenerates == 1

\* range(20) in generate_birthdate_for_age
Attempts == 20

\* the values random.randint(lo, hi) is explored on
RandInt(lo, hi) ==
    LET mid == (lo + hi) \div 2
    IN  (lo..Min(hi, lo + EdgeWidth - 1))
        \cup (Max(lo, hi - EdgeWidth + 1)..hi)
        \cup (mid..Min(hi, mid + EdgeWidth - 1))

(***************************************************************************)
(* Age / date-of-birth coherence                                           *)
(***************************************************************************)
\* calculate_age_from_dob on a date, as of the date t
AgeOn(dob, t) ==
    t.year - dob.year - (IF TupleLess(t.month, t.day, dob.month, dob.day) THEN 1 ELSE 0)

CalculateAgeFromDob(dob) == AgeOn(dob, today)

\* start_date and end_date of generate_birthdate_for_age, after the swap
BirthWindow(age) ==
    LET s == MinusDays(today, (age + 1) * 365)
        e == MinusDays(today, age * 365)
    IN  IF DateLess(e, s) THEN [start |-> e, end |-> s] ELSE [start |-> s, end |-> e]

\* candidate.replace(year=...) / candidate.replace(month=3, day=1, year=...)
FallbackShift(candidate, age_delta) ==
    IF IsValidDate(candidate.year - age_delta, candidate.month, candidate.day)
    THEN [dob |-> Date(candidate.year - age_delta, candidate.month, candidate.day),
          path |-> "shift"]
    ELSE [dob |-> Date(candidate.year - age_delta, 3, 1), path |-> "leapday"]

\* the fallback without the year shift
FallbackBirthdate_NoShift(age) == [dob |-> BirthWindow(age).end, path |-> "end"]

\* the code after the loop of generate_birthdate_for_age
FallbackBirthdate(age) ==
    LET candidate == BirthWindow(age).end
        age_delta == age - CalculateAgeFromDob(candidate)
    IN  IF age_delta # 0 THEN FallbackShift(candidate, age_delta)
        ELSE [dob |-> candidate, path |-> "end"]

\* generate_birthdate_for_age(age): the results its draws can lead to.  A drawn
\* candidate of the right age is returned at once; the code after the loop runs
\* when every one of the Attempts draws was a candidate of another age, which
\* needs a candidate of another age somewhere in the window (looked for at its
\* two ends first, then everywhere).
GenerateBirthdateForAge(age) ==
    LET w        == BirthWindow(age)
        delta    == Max(DaysBetween(w.end, w.start), 0)
        drawn    == {PlusDays(w.start, o) : o \in RandInt(0, delta)}
        accepted == {c \in drawn : CalculateAgeFromDob(c) = age}
        canFail  == \/ Attempts = 0
                    \/ CalculateAgeFromDob(w.end) # age
                    \/ CalculateAgeFromDob(w.start) # age
                    \/ \E o \in 0..delta : CalculateAgeFromDob(PlusDays(w.start, o)) # age
    IN  (IF Attempts > 0 THEN {[dob |-> c, path |-> "drawn"] : c \in accepted} ELSE {})
        \cup (IF canFail THEN {FallbackBirthdate(age)} ELSE {})

\* age and birthdate drawn independently of each other
RandomAgeAndDob_Independent(min_age, max_age) ==
    UNION {{[age |-> a, dob |-> r.dob] : r \in GenerateBirthdateForAge(b)} :
             a \in RandInt(min_age, max_age), b \in RandInt(min_age, max_age)}

\* random_age_and_dob(min_age, max_age): the (age, dob) pairs it can return
RandomAgeAndDob(min_age, max_age) ==
    UNION {{[age |-> a, dob |-> r.dob] : r \in GenerateBirthdateForAge(a)} :
             a \in RandInt(min_age, max_age)}

(***************************************************************************)
(* str: sequences of one-character strings                                 *)
(***************************************************************************)
LOWERCASE == <<"a", "b", "c", "d", "e", "f", "g", "h", "i", "j", "k", "l", "m",
               "n", "o", "p", "q", "r", "s", "t", "u", "v", "w", "x", "y", "z">>
UPPERCASE == <<"A", "B", "C", "D", "E", "F", "G", "H", "I", "J", "K", "L", "M",
               "N", "O", "P", "Q", "R", "S", "T", "U", "V", "W", "X", "Y", "Z">>
DIGITS == <<"0", "1", "2", "3", "4", "5", "6", "7", "8", "9">>

LowerSet == {LOWERCASE[i] : i \in 1..26}
UpperSet == {UPPERCASE[i] : i \in 1..26}
DigitSet == {DIGITS[i] : i \in 1..10}

UpperToLower == [c \in UpperSet |-> LOWERCASE[CHOOSE i \in 1..26 : UPPERCASE[i] = c]]
LowerToUpper == [c \in LowerSet |-> UPPERCASE[CHOOSE i \in 1..26 : LOWERCASE[i] = c]]
DigitValue == [c \in DigitSet |-> (CHOOSE i \in 1..10 : DIGITS[i] = c) - 1]

LowerChar(c) == IF c \in UpperSet THEN UpperToLower[c] ELSE c
UpperChar(c) == IF c \in LowerSet THEN LowerToUpper[c] ELSE c
IsCased(c) == c \in LowerSet \/ c \in UpperSet

\* str.lower()
Lower(str) == [i \in 1..Len(str) |-> LowerChar(str[i])]

\* str.title(): a cased character is upper-cased after an uncased one (or at
\* the start) and lower-cased after a cased one
Title(str) ==
    [i \in 1..Len(str) |->
        IF i > 1 /\ IsCased(str[i - 1]) THEN LowerChar(str[i]) ELSE UpperChar(str[i])]

\* str.strip()
RECURSIVE LStrip(_)
LStrip(str) ==
    IF str # <<>> /\ Head(str) = " " THEN LStrip(Tail(str)) ELSE str

RECURSIVE RStrip(_)
RStrip(str) ==
    IF str # <<>> /\ str[Len(str)] = " " THEN RStrip(SubSeq(str, 1, Len(str) - 1)) ELSE str

Strip(str) == RStrip(LStrip(str))

\* f.strip().title()
StripTitle(str) == Title(Strip(str))

\* the labels of DEFAULT_FIELDS
L_Name == <<"N", "a", "m", "e">>
L_Age == <<"A", "g", "e">>
L_Grade == <<"G", "r", "a", "d", "e">>
L_GPA == <<"G", "P", "A">>
L_DOB == <<"D", "O", "B">>
L_City == <<"C", "i", "t", "y">>
L_State == <<"S", "t", "a", "t", "e">>
L_Address == <<"A", "d", "d", "r", "e", "s", "s">>
L_SchoolName == <<"S", "c", "h", "o", "o", "l", " ", "N", "a", "m", "e">>
L_Country == <<"C", "o", "u", "n", "t", "r", "y">>
L_Zipcode == <<"Z", "i", "p", "c", "o", "d", "e">>
L_CollegeName == <<"C", "o", "l", "l", "e", "g", "e", " ", "N", "a", "m", "e">>
L_Major == <<"M", "a", "j", "o", "r">>
L_Year == <<"Y", "e", "a", "r">>
L_BankName == <<"B", "a", "n", "k", " ", "N", "a", "m", "e">>
L_ABANumber == <<"A", "B", "A", " ", "N", "u", "m", "b", "e", "r">>
L_AccountNumber == <<"A", "c", "c", "o", "u", "n", "t", " ", "N", "u", "m", "b", "e", "r">>
L_Balance == <<"B", "a", "l", "a", "n", "c", "e">>
L_Email == <<"E", "m", "a", "i", "l">>
L_Phone == <<"P", "h", "o", "n", "e">>
L_JobTitle == <<"J", "o", "b", " ", "T", "i", "t", "l", "e">>
L_Company == <<"C", "o", "m", "p", "a", "n", "y">>

\* the keys of FIELD_MAP and FIELD_ALIASES
K_name == <<"n", "a", "m", "e">>
K_email == <<"e", "m", "a", "i", "l">>
K_phone == <<"p", "h", "o", "n", "e">>
K_address == <<"a", "d", "d", "r", "e", "s", "s">>
K_city == <<"c", "i", "t", "y">>
K_state == <<"s", "t", "a", "t", "e">>
K_country == <<"c", "o", "u", "n", "t", "r", "y">>
K_zipcode == <<"z", "i", "p", "c", "o", "d", "e">>
K_dob == <<"d", "o", "b">>
K_age == <<"a", "g", "e">>
K_gpa == <<"g", "p", "a">>
K_grade == <<"g", "r", "a", "d", "e">>
K_school_name == <<"s", "c", "h", "o", "o", "l", " ", "n", "a", "m", "e">>
K_college_name == <<"c", "o", "l", "l", "e", "g", "e", " ", "n", "a", "m", "e">>
K_major == <<"m", "a", "j", "o", "r">>
K_year == <<"y", "e", "a", "r">>
K_bank_name == <<"b", "a", "n", "k", " ", "n", "a", "m", "e">>
K_aba_number == <<"a", "b", "a", " ", "n", "u", "m", "b", "e", "r">>
K_account_number == <<"a", "c", "c", "o", "u", "n", "t", " ", "n", "u", "m", "b", "e", "r">>
K_balance == <<"b", "a", "l", "a", "n", "c", "e">>
K_job_title == <<"j", "o", "b", " ", "t", "i", "t", "l", "e">>
K_company == <<"c", "o", "m", "p", "a", "n", "y">>
K_university == <<"u", "n", "i", "v", "e", "r", "s", "i", "t", "y">>
K_college == <<"c", "o", "l", "l", "e", "g", "e">>
K_school == <<"s", "c", "h", "o", "o", "l">>
K_bank == <<"b", "a", "n", "k">>
K_job == <<"j", "o", "b">>
K_aba == <<"a", "b", "a">>
K_account == <<"a", "c", "c", "o", "u", "n", "t">>

WORD == <<"w", "o", "r", "d">>
ELEMENTARY == <<"E", "l", "e", "m", "e", "n", "t", "a", "r", "y", " ", "S", "c", "h", "o", "o", "l">>
MIDDLE == <<"M", "i", "d", "d", "l", "e", " ", "S", "c", "h", "o", "o", "l">>
HIGH == <<"H", "i", "g", "h", " ", "S", "c", "h", "o", "o", "l">>

(***************************************************************************)
(* Record values and dicts                                                 *)
(***************************************************************************)
V_int(n) == [t |-> "int", i |-> n, s |-> <<>>]
V_str(x) == [t |-> "str", i |-> 0, s |-> x]
\* a float rounded to 2 decimals, held in hundredths
V_float(h) == [t |-> "float", i |-> h, s |-> <<>>]

\* date.isoformat(): YYYY-MM-DD, zero padded
Digit(n) == DIGITS[(n % 10) + 1]

IsoFormat(dt) ==
    <<Digit(dt.year \div 1000), Digit(dt.year \div 100), Digit(dt.year \div 10),
      Digit(dt.year), "-", Digit(dt.month \div 10), Digit(dt.month), "-",
      Digit(dt.day \div 10), Digit(dt.day)>>

\* datetime.fromisoformat(str).date() on a YYYY-MM-DD string: ok is FALSE where
\* it raises ValueError
FromIsoFormat(str) ==
    LET wellFormed == /\ Len(str) = 10
                      /\ str[5] = "-"
                      /\ str[8] = "-"
                      /\ \A i \in {1, 2, 3, 4, 6, 7, 9, 10} : str[i] \in DigitSet
        y == DigitValue[str[1]] * 1000 + DigitValue[str[2]] * 100
               + DigitValue[str[3]] * 10 + DigitValue[str[4]]
        m == DigitValue[str[6]] * 10 + DigitValue[str[7]]
        d == DigitValue[str[9]] * 10 + DigitValue[str[10]]
    IN  IF wellFormed /\ IsValidDate(y, m, d)
        THEN [ok |-> TRUE, date |-> Date(y, m, d)]
        ELSE [ok |-> FALSE, date |-> Date(1, 1, 1)]

\* parse_dob_value on a record value: ok is FALSE where it returns None
ParseDobValue(v) ==
    IF v.t = "str" THEN FromIsoFormat(v.s) ELSE [ok |-> FALSE, date |-> Date(1, 1, 1)]

\* format_dob_output on a date
FormatDobOutput(dt) == V_str(IsoFormat(dt))

\* int(value) inside the try of update_last_generated: ok is FALSE where it
\* raises ValueError or TypeError (a str parses when it is all digits)
RECURSIVE DigitsValue(_, _)
DigitsValue(str, acc) ==
    IF str = <<>> THEN acc
    ELSE CHOOSE out \in {DigitsValue(Tail(str), next) :
                            next \in {acc * 10 + DigitValue[Head(str)]}} : TRUE

IntOf(v) ==
    IF v.t = "int" THEN [ok |-> TRUE, n |-> v.i]
    ELSE IF v.t = "float" THEN [ok |-> TRUE, n |-> v.i \div 100]
    ELSE IF v.s # <<>> /\ \A i \in 1..Len(v.s) : v.s[i] \in DigitSet
         THEN [ok |-> TRUE, n |-> DigitsValue(v.s, 0)]
         ELSE [ok |-> FALSE, n |-> 0]

\* dict operations on a sequence of [k, v] entries in insertion order
HasKey(rec, key) == \E i \in 1..Len(rec) : rec[i].k = key
Get(rec, key) == rec[CHOOSE i \in 1..Len(rec) : rec[i].k = key].v
\* record[key] = value
Put(rec, key, value) ==
    IF HasKey(rec, key)
    THEN [i \in 1..Len(rec) |-> IF rec[i].k = key THEN [k |-> key, v |-> value] ELSE rec[i]]
    ELSE Append(rec, [k |-> key, v |-> value])
\* record.pop(key, None)
Pop(rec, key) == SelectSeq(rec, LAMBDA e : e.k # key)

\* find_field_key returning the last key looked at when none matches
FindFieldKey_LastSeen(rec, field_name) ==
    LET target == Lower(field_name)
        hits   == {i \in 1..Len(rec) : Lower(rec[i].k) = target}
    IN  IF rec = <<>> THEN [found |-> FALSE, key |-> <<>>]
        ELSE IF hits = {} THEN [found |-> TRUE, key |-> rec[Len(rec)].k]
        ELSE [found |-> TRUE, key |-> rec[CHOOSE i \in hits : \A j \in hits : i <= j].k]

\* find_field_key: the first key equal to field_name ignoring case; found is
\* FALSE where it returns None
FindFieldKey(rec, field_name) ==
    LET target == Lower(field_name)
        hits   == {i \in 1..Len(rec) : Lower(rec[i].k) = target}
    IN  IF hits = {} THEN [found |-> FALSE, key |-> <<>>]
        ELSE [found |-> TRUE, key |-> rec[CHOOSE i \in hits : \A j \in hits : i <= j].k]

(***************************************************************************)
(* Field maps, aliases and entity tables                                   *)
(***************************************************************************)
\* FIELD_ALIASES.get(f_lower, f_lower)
FieldAlias(f_lower) ==
    CASE f_lower = K_university -> K_college_name
      [] f_lower = K_college    -> K_college_name
      [] f_lower = K_school     -> K_school_name
      [] f_lower = K_bank       -> K_bank_name
      [] f_lower = K_job        -> K_job_title
      [] f_lower = K_aba        -> K_aba_number
      [] f_lower = K_account    -> K_account_number
      [] OTHER                  -> f_lower

\* ENTITY_ALIASES.get(entity_type.lower()): "None" where it returns None.
\* Entity labels are whole lower-case words, as run_agent passes them.
NormalizeEntityType(entity_type) ==
    CASE entity_type \in {"student", "students"}                 -> "student"
      [] entity_type \in {"college_student", "college_students"} -> "college_student"
      [] entity_type \in {"bank_customer", "bank_customers"}     -> "bank_customer"
      [] entity_type \in {"employee", "employees"}               -> "employee"
      [] OTHER                                                   -> "None"

EntityGenerators == {"student", "college_student", "bank_customer", "employee"}

\* the default range for every type
AgeRange_AlwaysDefault(normalized_type) == [min |-> 5, max |-> 80]

\* AGE_RANGES.get(normalized_type, (5, 80))
AgeRange(normalized_type) ==
    CASE normalized_type = "student"         -> [min |-> 5, max |-> 18]
      [] normalized_type = "college_student" -> [min |-> 18, max |-> 25]
      [] normalized_type = "bank_customer"   -> [min |-> 18, max |-> 80]
      [] normalized_type = "employee"        -> [min |-> 22, max |-> 65]
      [] OTHER                               -> [min |-> 5, max |-> 80]

\* DEFAULT_FIELDS.get(normalized_type, ["Name"])
DefaultFields(normalized_type) ==
    CASE normalized_type = "student" ->
           <<L_Name, L_Age, L_Grade, L_GPA, L_DOB, L_City, L_State, L_Address,
             L_SchoolName, L_Country, L_Zipcode>>
      [] normalized_type = "college_student" ->
           <<L_Name, L_Age, L_DOB, L_CollegeName, L_Major, L_Year, L_GPA, L_City,
             L_State, L_Country>>
      [] normalized_type = "bank_customer" ->
           <<L_Name, L_Age, L_DOB, L_BankName, L_ABANumber, L_AccountNumber,
             L_Balance, L_Email, L_Phone, L_Address, L_City, L_State, L_Country>>
      [] normalized_type = "employee" ->
           <<L_Name, L_Age, L_DOB, L_JobTitle, L_Company, L_Email, L_Phone,
             L_Address, L_City, L_State, L_Country>>
      [] OTHER -> <<L_Name>>

\* random.uniform(lo, hi) rounded to 2 decimals, in hundredths, explored at the
\* low end of the interval
Uniform(lo, hi) == lo..Min(hi, lo + EdgeWidth - 1)

\* fake.word()
FakeWord == V_str(WORD)

\* FIELD_MAP.get(f_lower, lambda: fake.word())(): the values the call can
\* return; raises is TRUE where the entry is a lambda with a required argument
\* (grade, school name, year), which the call gives none: TypeError.  A
\* fabricated or chosen string is the key itself: its content plays no part.
FieldMapCall(f_lower) ==
    IF f_lower \in {K_grade, K_school_name, K_year}
    THEN [raises |-> TRUE, vals |-> {}]
    ELSE IF f_lower = K_gpa THEN [raises |-> FALSE, vals |-> {V_float(h) : h \in Uniform(200, 400)}]
    ELSE IF f_lower = K_balance
         THEN [raises |-> FALSE, vals |-> {V_float(h) : h \in Uniform(100000, 10000000)}]
    ELSE IF f_lower = K_age THEN [raises |-> FALSE, vals |-> {V_int(n) : n \in RandInt(5, 22)}]
    ELSE IF f_lower \in {K_name, K_email, K_phone, K_address, K_city, K_state, K_country,
                         K_zipcode, K_dob, K_college_name, K_major, K_bank_name,
                         K_aba_number, K_account_number, K_job_title, K_company}
         THEN [raises |-> FALSE, vals |-> {V_str(f_lower)}]
    ELSE [raises |-> FALSE, vals |-> {FakeWord}]

(***************************************************************************)
(* Entity record generators                                                *)
(***************************************************************************)
\* generate_school_name(age): the tier; the random prefix plays no part
GenerateSchoolName(age) ==
    IF age <= 10 THEN V_str(ELEMENTARY)
    ELSE IF 11 <= age /\ age <= 14 THEN V_str(MIDDLE)
    ELSE V_str(HIGH)

\* grade = max(1, min(12, age - 5 + 1))
GradeOf(age) == Max(1, Min(12, age - 5 + 1))

\* the branches of the field loop of generate_student_record
StudentField(f_lower, age, dob) ==
    IF f_lower = K_age THEN [raises |-> FALSE, vals |-> {V_int(age)}]
    ELSE IF f_lower = K_dob THEN [raises |-> FALSE, vals |-> {V_str(IsoFormat(dob))}]
    ELSE IF f_lower = K_grade THEN [raises |-> FALSE, vals |-> {V_int(GradeOf(age))}]
    ELSE IF f_lower = K_school_name THEN [raises |-> FALSE, vals |-> {GenerateSchoolName(age)}]
    ELSE FieldMapCall(f_lower)

\* the branches of the field loop of generate_college_student_record
CollegeStudentField(f_lower, age, dob, year) ==
    IF f_lower = K_age THEN [raises |-> FALSE, vals |-> {V_int(age)}]
    ELSE IF f_lower = K_dob THEN [raises |-> FALSE, vals |-> {V_str(IsoFormat(dob))}]
    ELSE IF f_lower = K_year THEN [raises |-> FALSE, vals |-> {V_int(year)}]
    ELSE FieldMapCall(f_lower)

\* the branches of the field loops of generate_bank_customer_record and of
\* generate_employee_record: their named branches call the same FIELD_MAP
\* entry as the final one
PlainField(f_lower, age, dob) ==
    IF f_lower = K_age THEN [raises |-> FALSE, vals |-> {V_int(age)}]
    ELSE IF f_lower = K_dob THEN [raises |-> FALSE, vals |-> {V_str(IsoFormat(dob))}]
    ELSE FieldMapCall(f_lower)

FieldValue(normalized, f_lower, age, dob, year) ==
    CASE normalized = "student"         -> StudentField(f_lower, age, dob)
      [] normalized = "college_student" -> CollegeStudentField(f_lower, age, dob, year)
      [] OTHER                          -> PlainField(f_lower, age, dob)

\* for field in fields: record[field] = ...; raised is TRUE where a field's
\* value raises, rec is then the record built so far
RECURSIVE BuildRecord(_, _, _, _, _, _)
BuildRecord(normalized, fields, rec, age, dob, year) ==
    IF fields = <<>> THEN {[raised |-> FALSE, rec |-> rec]}
    ELSE LET field == Head(fields)
             fv    == FieldValue(normalized, FieldAlias(Lower(field)), age, dob, year)
         IN  IF fv.raises THEN {[raised |-> TRUE, rec |-> rec]}
             ELSE UNION {BuildRecord(normalized, Tail(fields), next, age, dob, year) :
                           next \in {Put(rec, field, v) : v \in fv.vals}}

\* {f: fake.word() for f in fields}
RECURSIVE WordRecord(_, _)
WordRecord(fields, rec) ==
    IF fields = <<>> THEN rec
    ELSE CHOOSE out \in {WordRecord(Tail(fields), next) :
                            next \in {Put(rec, Head(fields), FakeWord)}} : TRUE

\* generate_entity_record(entity_type, fields): the records it can return
GenerateEntityRecord(entity_type, fields) ==
    LET normalized == NormalizeEntityType(entity_type)
        range      == AgeRange(normalized)
    IN  IF normalized \in EntityGenerators
        THEN UNION {BuildRecord(normalized, fields, <<>>, p.age, p.dob, y) :
                      p \in RandomAgeAndDob(range.min, range.max),
                      y \in (IF normalized = "college_student" THEN RandInt(1, 4) ELSE {0})}
        ELSE {[raised |-> FALSE, rec |-> WordRecord(fields, <<>>)]}

(***************************************************************************)
(* update_last_generated, for one record                                   *)
(***************************************************************************)
S_Dob == <<"D", "o", "b">>

Some(x) == [has |-> TRUE, v |-> x]
NoAge == [has |-> FALSE, v |-> 0]
NoDob == [has |-> FALSE, v |-> Date(1, 1, 1)]

\* the removal loop: pop the first key matching each label
RECURSIVE RemoveFields(_, _)
RemoveFields(rec, remove_fields) ==
    IF remove_fields = <<>> THEN rec
    ELSE LET existing_key == FindFieldKey(rec, Head(remove_fields))
         IN  CHOOSE out \in {RemoveFields(next, Tail(remove_fields)) :
                                next \in {IF existing_key.found /\ existing_key.key # <<>>
                                          THEN Pop(rec, existing_key.key) ELSE rec}} : TRUE

Ctx(rec, desired_age, desired_dob) ==
    [rec |-> rec, desired_age |-> desired_age, desired_dob |-> desired_dob]

\* record[dob_key] = format_dob_output(generated_dob), when the record has a
\* DOB key and no DOB is being added
BackFill(rec, dob_key, dob_requested, generated_dob) ==
    IF dob_key.found /\ ~dob_requested
    THEN Put(rec, dob_key.key, FormatDobOutput(generated_dob))
    ELSE rec

\* the age of the existing DOB taken as the difference of the years
DesiredAgeFromExisting_YearDiff(age_requested, existing_age, existing_dob) ==
    IF age_requested /\ existing_dob.ok
    THEN Some(today.year - existing_dob.date.year)
    ELSE IF age_requested /\ existing_age.ok THEN Some(existing_age.n)
    ELSE NoAge

\* "if age_requested:" before the loop over add_fields: the age of the
\* existing DOB, else the existing age
DesiredAgeFromExisting(age_requested, existing_age, existing_dob) ==
    IF age_requested /\ existing_dob.ok
    THEN Some(CalculateAgeFromDob(existing_dob.date))
    ELSE IF age_requested /\ existing_age.ok THEN Some(existing_age.n)
    ELSE NoAge

\* "if dob_requested:" before the loop over add_fields: a birthdate drawn for
\* the existing age, else the existing DOB
DesiredDobFromExisting(dob_requested, existing_age, existing_dob) ==
    IF dob_requested /\ existing_age.ok
    THEN {Some(g.dob) : g \in GenerateBirthdateForAge(existing_age.n)}
    ELSE IF dob_requested /\ existing_dob.ok THEN {Some(existing_dob.date)}
    ELSE {NoDob}

\* "if age_requested and dob_requested: ... elif ... elif ..." before the loop
\* over add_fields: the (record, desired_age, desired_dob) it can leave
ReconcileDesired(rec, age1, dob1, age_requested, dob_requested, dob_key, existing_age, range) ==
    IF age_requested /\ dob_requested
    THEN IF ~age1.has /\ ~dob1.has
         THEN {Ctx(rec, Some(p.age), Some(p.dob)) :
                 p \in RandomAgeAndDob(range.min, range.max)}
         ELSE IF ~age1.has /\ dob1.has
         THEN {Ctx(rec, Some(CalculateAgeFromDob(dob1.v)), dob1)}
         ELSE IF age1.has /\ ~dob1.has
         THEN {Ctx(rec, age1, Some(g.dob)) : g \in GenerateBirthdateForAge(age1.v)}
         ELSE {Ctx(rec, age1, dob1)}
    ELSE IF age_requested /\ ~age1.has
    THEN {Ctx(BackFill(rec, dob_key, dob_requested, p.dob), Some(p.age), dob1) :
            p \in RandomAgeAndDob(range.min, range.max)}
    ELSE IF dob_requested /\ ~dob1.has
    THEN IF existing_age.ok
         THEN {Ctx(rec, age1, Some(g.dob)) : g \in GenerateBirthdateForAge(existing_age.n)}
         ELSE {Ctx(rec, age1, Some(p.dob)) : p \in RandomAgeAndDob(range.min, range.max)}
    ELSE {Ctx(rec, age1, dob1)}

\* the loop body for normalized_field == "age"
AddAge(c, field, dob_requested, dob_key, range) ==
    IF ~c.desired_age.has
    THEN {[raised |-> FALSE,
           ctx |-> Ctx(Put(IF dob_requested /\ ~c.desired_dob.has THEN c.rec
                           ELSE BackFill(c.rec, dob_key, dob_requested, p.dob),
                           field, V_int(p.age)),
                       Some(p.age),
                       IF dob_requested /\ ~c.desired_dob.has THEN Some(p.dob)
                       ELSE c.desired_dob)] :
            p \in RandomAgeAndDob(range.min, range.max)}
    ELSE {[raised |-> FALSE,
           ctx |-> Ctx(Put(c.rec, field, V_int(c.desired_age.v)),
                       c.desired_age, c.desired_dob)]}

\* the loop body for normalized_field == "dob"
AddDob(c, field, range) ==
    LET dobs == IF c.desired_dob.has THEN {c.desired_dob.v}
                ELSE IF c.desired_age.has
                THEN {g.dob : g \in GenerateBirthdateForAge(c.desired_age.v)}
                ELSE {p.dob : p \in RandomAgeAndDob(range.min, range.max)}
    IN  {[raised |-> FALSE,
          ctx |-> Ctx(Put(c.rec, field, FormatDobOutput(d)), c.desired_age, Some(d))] :
           d \in dobs}

\* the generated single-field record replacing the record
AddOther_ReplaceRecord(c, field, normalized_type) ==
    {IF g.raised THEN [raised |-> TRUE, ctx |-> c]
     ELSE [raised |-> FALSE, ctx |-> Ctx(g.rec, c.desired_age, c.desired_dob)] :
       g \in GenerateEntityRecord(normalized_type, <<field>>)}

\* the loop body for every other field:
\* record[field] = generate_entity_record(normalized_type, [field])[field]
AddOther(c, field, normalized_type) ==
    {IF g.raised THEN [raised |-> TRUE, ctx |-> c]
     ELSE [raised |-> FALSE,
           ctx |-> Ctx(Put(c.rec, field, Get(g.rec, field)), c.desired_age, c.desired_dob)] :
       g \in GenerateEntityRecord(normalized_type, <<field>>)}

\* one iteration of the loop over zip(add_fields, normalized_add_fields): the
\* contexts it can leave; raised where generate_entity_record raises
AddField(c, field, normalized_field, dob_requested, dob_key, normalized_type, range) ==
    IF normalized_field = K_age THEN AddAge(c, field, dob_requested, dob_key, range)
    ELSE IF normalized_field = K_dob THEN AddDob(c, field, range)
    ELSE AddOther(c, field, normalized_type)

RECURSIVE AddFields(_, _, _, _, _, _, _)
AddFields(c, add_fields, k, dob_requested, dob_key, normalized_type, range) ==
    IF k > Len(add_fields) THEN {[raised |-> FALSE, rec |-> c.rec]}
    ELSE UNION {IF o.raised THEN {[raised |-> TRUE, rec |-> o.ctx.rec]}
                ELSE AddFields(o.ctx, add_fields, k + 1, dob_requested, dob_key,
                               normalized_type, range) :
                  o \in AddField(c, add_fields[k], FieldAlias(Lower(add_fields[k])),
                                 dob_requested, dob_key, normalized_type, range)}

\* the body of "for record in session_data['last_generated']": the records it
\* can leave, with raised where it stops on an exception
UpdateRecord(record, add_fields, remove_fields, normalized_type) ==
    LET rec           == RemoveFields(record, remove_fields)
        normalized_add_fields == [i \in 1..Len(add_fields) |-> FieldAlias(Lower(add_fields[i]))]
        range         == AgeRange(normalized_type)
        age_requested == \E i \in 1..Len(add_fields) : normalized_add_fields[i] = K_age
        dob_requested == \E i \in 1..Len(add_fields) : normalized_add_fields[i] = K_dob
        age_key       == FindFieldKey(rec, L_Age)
        dob_key       == FindFieldKey(rec, S_Dob)
        existing_age  == IF age_key.found THEN IntOf(Get(rec, age_key.key))
                         ELSE [ok |-> FALSE, n |-> 0]
        existing_dob  == IF dob_key.found THEN ParseDobValue(Get(rec, dob_key.key))
                         ELSE [ok |-> FALSE, date |-> Date(1, 1, 1)]
        age1          == DesiredAgeFromExisting(age_requested, existing_age, existing_dob)
        before        == UNION {ReconcileDesired(rec, age1, dob1, age_requested, dob_requested,
                                                 dob_key, existing_age, range) :
                                  dob1 \in DesiredDobFromExisting(dob_requested, existing_age,
                                                                  existing_dob)}
    IN  UNION {AddFields(c, add_fields, 1, dob_requested, dob_key, normalized_type, range) :
                 c \in before}

\* the loop over the records: they are updated in place, in order, so an
\* exception leaves the earlier records updated, the current one partly
\* updated and the later ones untouched
RECURSIVE UpdateBatch(_, _, _, _, _)
UpdateBatch(data, i, add_fields, remove_fields, normalized_type) ==
    IF i > Len(data) THEN {[raised |-> FALSE, data |-> data]}
    ELSE UNION {IF o.raised THEN {[raised |-> TRUE, data |-> o.data]}
                ELSE UpdateBatch(o.data, i + 1, add_fields, remove_fields, normalized_type) :
                  o \in {[raised |-> u.raised, data |-> [data EXCEPT ![i] = u.rec]] :
                           u \in UpdateRecord(data[i], add_fields, remove_fields,
                                              normalized_type)}}

(***************************************************************************)
(* Specification SpecBirthdate: generate_birthdate_for_age called for one  *)
(* age on one current date                                                 *)
(***************************************************************************)
\* first current date explored
TodayFirst == Date(2023, 3, 1)

\* the ages of AGE_RANGES taken together and of the (5, 80) default
AllAges == 5..80

InitBirthdate ==
    /\ today \in {PlusDays(TodayFirst, k) : k \in 0..(TodaySpan - 1)}
    /\ bAge \in AllAges
    /\ bDob = Date(1, 1, 1)
    /\ bPath = "none"
    /\ last_generated = [set |-> FALSE, data |-> <<>>]
    /\ last_type = "None"
    /\ op = "init"
    /\ args = [add |-> <<>>, remove |-> <<>>]
    /\ raised = FALSE
    /\ warned = FALSE
    /\ generates = 0
    /\ updates = 0

CallGenerateBirthdate ==
    /\ bPath = "none"
    /\ \E r \in GenerateBirthdateForAge(bAge) :
          /\ bDob' = r.dob
          /\ bPath' = r.path
    /\ UNCHANGED <<today, bAge, last_generated, last_type, op, args, raised, warned,
                   generates, updates>>

NextBirthdate == CallGenerateBirthdate

SpecBirthdate == InitBirthdate /\ [][NextBirthdate]_vars

\* C3: whatever its draws, generate_birthdate_for_age(a) returns a date whose age
\* on the current date is exactly a, on the drawn path and on the fallback path
\* (year shift, with 29 February replaced by 1 March), for every age of 5..80.
C3_BirthdateRoundTrip ==
    bPath # "none" => /\ bPath \in {"drawn", "end", "shift", "leapday"}
                      /\ IsValidDate(bDob.year, bDob.month, bDob.day)
                      /\ CalculateAgeFromDob(bDob) = bAge

\* the fallback met 29 February and answered 1 March
C3_LeapDayFallback ==
    bPath = "leapday" /\ CalculateAgeFromDob(bDob) = bAge /\ bAge \in AllAges

(***************************************************************************)
(* Specification Spec: one session of run_agent commands                   *)
(***************************************************************************)
\* raw labels as typed in commands, before strip() and title()
R_age == <<"a", "g", "e">>
R_DOB == <<"D", "O", "B">>
R_dob == <<" ", "d", "o", "b">>
R_grade == <<"g", "r", "a", "d", "e">>
R_AGE == <<"A", "G", "E">>
R_zipcode == <<"z", "i", "p", "c", "o", "d", "e">>

GenLabels == {R_age, R_DOB}
AddLabels == {R_age, R_dob, R_grade}
RemoveLabels == {R_AGE, R_dob, R_zipcode}

\* entity words of generate commands, lower-cased by run_agent
EntityInputs == {"students", "college_students", "bank_customers", "employees", "widgets"}

\* the current date of the sessions explored
SessionDates == {Date(2026, 11, 6)}

SeqsUpTo(S, n) == UNION {[1..k -> S] : k \in 0..n}

\* session_data["last_generated"] is not None
HasBatch_IsNotNone == last_generated.set

\* bool(session_data["last_generated"])
HasBatch == last_generated.set /\ last_generated.data # <<>>

Init ==
    /\ today \in SessionDates
    /\ last_generated = [set |-> FALSE, data |-> <<>>]
    /\ last_type = "None"
    /\ op = "init"
    /\ args = [add |-> <<>>, remove |-> <<>>]
    /\ raised = FALSE
    /\ warned = FALSE
    /\ generates = 0
    /\ updates = 0
    /\ bAge = 0
    /\ bDob = Date(1, 1, 1)
    /\ bPath = "none"

\* the batches [generate_entity_record(entity_type, fields) for _ in range(count)]
\* can build; raised where one of the calls raises
RECURSIVE GenerateBatch(_, _, _)
GenerateBatch(count, entity_type, fields) ==
    IF count = 0 THEN {[raised |-> FALSE, data |-> <<>>]}
    ELSE UNION {IF r.raised THEN {[raised |-> TRUE, data |-> <<>>]}
                ELSE {IF b.raised THEN b ELSE [raised |-> FALSE, data |-> <<r.rec>> \o b.data] :
                        b \in GenerateBatch(count - 1, entity_type, fields)} :
                  r \in GenerateEntityRecord(entity_type, fields)}

\* run_agent, the generate branch.  given = FALSE is a command without a
\* "with" part.  An exception leaves the session as it was and ends the process.
Generate(count, entity_type, given, raw_fields) ==
    /\ ~raised
    /\ generates < MaxGenerates
    /\ generates' = generates + 1
    /\ LET normalized_type == NormalizeEntityType(entity_type)
           stripped == SelectSeq(raw_fields, LAMBDA f : Strip(f) # <<>>)
           fields == IF given /\ raw_fields # <<>>
                     THEN [i \in 1..Len(stripped) |-> StripTitle(stripped[i])]
                     ELSE DefaultFields(normalized_type)
       IN  \E b \in GenerateBatch(count, entity_type, fields) :
              /\ raised' = b.raised
              /\ IF b.raised
                 THEN UNCHANGED <<last_generated, last_type, updates>>
                 ELSE /\ last_generated' = [set |-> TRUE, data |-> b.data]
                      /\ last_type' = IF normalized_type # "None" THEN normalized_type
                                      ELSE entity_type
                      /\ updates' = 0
    /\ op' = "generate"
    /\ args' = [add |-> <<>>, remove |-> <<>>]
    /\ warned' = FALSE
    /\ UNCHANGED <<today, bAge, bDob, bPath>>

\* update_last_generated(add_fields, remove_fields)
Update(raw_add, raw_remove) ==
    /\ ~raised
    /\ op' = "update"
    /\ args' = [add |-> raw_add, remove |-> raw_remove]
    /\ IF ~HasBatch
       THEN /\ warned' = TRUE
            /\ UNCHANGED <<last_generated, last_type, raised, updates>>
       ELSE /\ updates < MaxUpdates
            /\ LET add_fields == [i \in 1..Len(raw_add) |-> StripTitle(raw_add[i])]
                   remove_fields == [i \in 1..Len(raw_remove) |-> StripTitle(raw_remove[i])]
                   entity_type == last_type
                   normalized_type == IF NormalizeEntityType(entity_type) # "None"
                                      THEN NormalizeEntityType(entity_type) ELSE entity_type
               IN  \E b \in UpdateBatch(last_generated.data, 1, add_fields, remove_fields,
                                        normalized_type) :
                      /\ last_generated' = [set |-> TRUE, data |-> b.data]
                      /\ raised' = b.raised
            /\ warned' = FALSE
            /\ updates' = updates + 1
            /\ UNCHANGED last_type
    /\ UNCHANGED <<today, generates, bAge, bDob, bPath>>

\* run_agent, the save branch: export is outside the model, the session is
\* only read
Save ==
    /\ ~raised
    /\ op' = "save"
    /\ args' = [add |-> <<>>, remove |-> <<>>]
    /\ warned' = ~HasBatch
    /\ UNCHANGED <<today, last_generated, last_type, raised, generates, updates, bAge, bDob, bPath>>

Next ==
    \/ \E count \in 0..MaxCount, entity_type \in EntityInputs, given \in BOOLEAN :
         \E raw_fields \in (IF given THEN SeqsUpTo(GenLabels, MaxFields) ELSE {<<>>}) :
            Generate(count, entity_type, given, raw_fields)
    \/ \E raw_add \in SeqsUpTo(AddLabels, MaxAdd), raw_remove \in SeqsUpTo(RemoveLabels, MaxRemove) :
         Update(raw_add, raw_remove)
    \/ Save

Spec == Init /\ [][Next]_vars

(***************************************************************************)
(* Properties of the session                                               *)
(***************************************************************************)
Batch == last_generated.data

TypedEntities == {"student", "college_student", "bank_customer", "employee"}

AgeLabelled(key) == Lower(key) = K_age
DobLabelled(key) == Lower(key) = K_dob
GradeLabelled(key) == Lower(key) = K_grade

KeySeq(rec) == [i \in 1..Len(rec) |-> rec[i].k]

\* every age-labelled value of the record is the age, on the current date, of
\* every DOB-labelled value of the record
AgeMatchesDob(rec) ==
    \A i, j \in 1..Len(rec) :
        AgeLabelled(rec[i].k) /\ DobLabelled(rec[j].k) =>
            /\ rec[i].v.t = "int"
            /\ rec[j].v.t = "str"
            /\ FromIsoFormat(rec[j].v.s).ok
            /\ rec[i].v.i = AgeOn(FromIsoFormat(rec[j].v.s).date, today)

\* the label is one of the raw labels of the list, ignoring case
Mentioned(key, raw_list) ==
    \E i \in 1..Len(raw_list) : Lower(Strip(raw_list[i])) = Lower(key)

\* the list asks for the canonical key (after strip, lower and alias)
Requested(f_lower, raw_list) ==
    \E i \in 1..Len(raw_list) : FieldAlias(Lower(Strip(raw_list[i]))) = f_lower

\* the step is an update that found a batch and ran to its end
UpdateDone == op' = "update" /\ ~warned' /\ ~raised'

\* C1: in a batch of one of the four typed entities, after generation and after
\* any sequence of updates, every record holding an age-labelled and a
\* DOB-labelled field has Age == calculate_age_from_dob(DOB).
C1_AgeMatchesDob ==
    last_type \in TypedEntities => \A r \in 1..Len(Batch) : AgeMatchesDob(Batch[r])

\* Age added by an update to a record that held only a DOB
C1_AgeAddedToDob ==
    /\ op = "update" /\ ~raised
    /\ last_type = "bank_customer"
    /\ args = [add |-> <<R_age>>, remove |-> <<>>]
    /\ \E r \in 1..Len(Batch) :
          /\ KeySeq(Batch[r]) = <<S_Dob, L_Age>>
          /\ AgeMatchesDob(Batch[r])

\* C2 as stated: for every entity type, the unknown one included, a generated
\* record holding age and dob has derive_age(dob) == age.
C2_GeneratedAgeMatchesDob ==
    (op = "generate" /\ ~raised) => \A r \in 1..Len(Batch) : AgeMatchesDob(Batch[r])

\* C2 as amended: for the four typed entities a generated record holding age
\* and dob has derive_age(dob) == age; for an unknown entity type every field,
\* age and dob included, is a placeholder word.
C2_TypedGeneratedAgeMatchesDob ==
    (op = "generate" /\ ~raised) =>
        \A r \in 1..Len(Batch) :
            IF last_type \in TypedEntities THEN AgeMatchesDob(Batch[r])
            ELSE \A i \in 1..Len(Batch[r]) : Batch[r][i].v = FakeWord

\* a generated student record holding both an age and a dob
C2_GeneratedWithAgeAndDob ==
    /\ op = "generate" /\ ~raised
    /\ last_type = "student"
    /\ \E r \in 1..Len(Batch) :
          /\ KeySeq(Batch[r]) = <<L_Age, S_Dob>>
          /\ AgeMatchesDob(Batch[r])

\* C4: in a student batch every record holding Age and Grade has
\* 1 <= Grade <= 12 and Grade == clamp(Age - 4, 1, 12), after generation and
\* after any sequence of updates.
C4_GradeMatchesAge ==
    last_type = "student" =>
        \A r \in 1..Len(Batch) : \A i, j \in 1..Len(Batch[r]) :
            AgeLabelled(Batch[r][i].k) /\ GradeLabelled(Batch[r][j].k) =>
                /\ Batch[r][i].v.t = "int"
                /\ Batch[r][j].v.t = "int"
                /\ 1 <= Batch[r][j].v.i
                /\ Batch[r][j].v.i <= 12
                /\ Batch[r][j].v.i = Max(1, Min(12, Batch[r][i].v.i - 4))

\* the fields of the record before the update that the record after it must
\* still hold, given which fields are excused
FieldsKept(old, new, add, remove, Excused(_)) ==
    /\ \A i \in 1..Len(old) :
          (~Mentioned(old[i].k, add) /\ ~Mentioned(old[i].k, remove) /\ ~Excused(old[i])) =>
              HasKey(new, old[i].k) /\ Get(new, old[i].k) = old[i].v
    /\ \A j \in 1..Len(new) : HasKey(old, new[j].k) \/ Mentioned(new[j].k, add)

NoField(entry) == FALSE

\* C5 as stated: an update keeps, with its label and value, every field whose
\* label matches no entry of the add list and none of the remove list, and
\* introduces no label outside the add list.
C5_UnmentionedFieldsKept ==
    [][op' = "update" /\ ~warned' =>
          /\ Len(last_generated'.data) = Len(Batch)
          /\ \A r \in 1..Len(Batch) :
                FieldsKept(Batch[r], last_generated'.data[r], args'.add, args'.remove, NoField)]_vars

\* a DOB-labelled field holding no date (a placeholder word), when Age is added
PlaceholderDob(entry) ==
    DobLabelled(entry.k) /\ ~ParseDobValue(entry.v).ok

\* C5 as amended: an update keeps every field it is not asked about and
\* introduces no label outside the add list, except that adding Age may
\* overwrite a DOB-labelled field that holds no parsable date.
C5_UnmentionedFieldsKeptButPlaceholderDob ==
    [][op' = "update" /\ ~warned' =>
          /\ Len(last_generated'.data) = Len(Batch)
          /\ \A r \in 1..Len(Batch) :
                LET Excused(entry) == PlaceholderDob(entry) /\ Requested(K_age, args'.add)
                IN  FieldsKept(Batch[r], last_generated'.data[r], args'.add, args'.remove,
                               Excused)]_vars

\* Grade added by an update to a student record that held an Age
C5_GradeAddedBesideAge ==
    /\ op = "update" /\ ~raised /\ ~warned
    /\ last_type = "student"
    /\ args = [add |-> <<R_grade>>, remove |-> <<>>]
    /\ \E r \in 1..Len(Batch) : KeySeq(Batch[r]) = <<L_Age, L_Grade>>

\* C6: an update with an empty add list whose remove list names only labels
\* that no record holds leaves every record and the entity type unchanged and
\* raises nothing.
C6_RemovingAbsentFieldsIsNoOp ==
    [][(/\ op' = "update"
        /\ last_generated.set /\ Batch # <<>>
        /\ args'.add = <<>>
        /\ \A r \in 1..Len(Batch) : \A i \in 1..Len(Batch[r]) :
              ~Mentioned(Batch[r][i].k, args'.remove))
       => /\ last_generated' = last_generated
          /\ last_type' = last_type
          /\ ~raised'
          /\ ~warned']_vars

\* an update that removed only an absent label from a batch with a record
C6_AbsentFieldRemoved ==
    /\ op = "update" /\ ~warned /\ ~raised
    /\ args = [add |-> <<>>, remove |-> <<R_zipcode>>]
    /\ Batch # <<>>
    /\ \A r \in 1..Len(Batch) :
          /\ Batch[r] # <<>>
          /\ \A i \in 1..Len(Batch[r]) : Lower(Batch[r][i].k) # K_zipcode

\* C7: with no batch in the session (none generated, or an empty one), an
\* update or a save only warns: last_generated and last_type stay as they were
\* and nothing is raised, whatever the add and remove lists.
C7_NoBatchOnlyWarns ==
    [][((~last_generated.set \/ Batch = <<>>) /\ op' \in {"update", "save"})
       => /\ warned'
          /\ last_generated' = last_generated
          /\ last_type' = last_type
          /\ ~raised']_vars

\* an update with fields to add that met an empty session
C7_UpdateWarned ==
    /\ op = "update" /\ warned /\ ~raised
    /\ args.add # <<>>
    /\ ~last_generated.set
    /\ last_type = "None"

\* the age ranges as the claim states them
ClaimedMinAge ==
    [student |-> 5, college_student |-> 18, bank_customer |-> 18, employee |-> 22]
ClaimedMaxAge ==
    [student |-> 18, college_student |-> 25, bank_customer |-> 80, employee |-> 65]

\* C8: every age held by a record of a typed batch lies in the inclusive range
\* of its entity type, after generation and after any update, whether the age
\* was drawn or derived from the record's DOB.
C8_AgesWithinRange ==
    last_type \in TypedEntities =>
        \A r \in 1..Len(Batch) : \A i \in 1..Len(Batch[r]) :
            AgeLabelled(Batch[r][i].k) =>
                /\ Batch[r][i].v.t = "int"
                /\ ClaimedMinAge[last_type] <= Batch[r][i].v.i
                /\ Batch[r][i].v.i <= ClaimedMaxAge[last_type]

\* an update derived the boundary age 65 of an employee from the record's DOB
C8_BoundaryAgeDerived ==
    /\ op = "update" /\ ~raised
    /\ last_type = "employee"
    /\ args = [add |-> <<R_age>>, remove |-> <<>>]
    /\ \E r \in 1..Len(Batch) :
          /\ KeySeq(Batch[r]) = <<S_Dob, L_Age>>
          /\ Get(Batch[r], L_Age) = V_int(65)

\* C9: an update adding both age and dob to a record that holds a DOB writes
\* that same DOB and the age derived from it, whether or not the record also
\* held an Age.
C9_ExistingDobReused ==
    [][(/\ UpdateDone
        /\ args'.remove = <<>>
        /\ Requested(K_age, args'.add)
        /\ Requested(K_dob, args'.add))
       => \A r \in 1..Len(Batch) :
            LET old == Batch[r]
                new == last_generated'.data[r]
                dob_key == FindFieldKey(old, S_Dob)
            IN  (dob_key.found /\ ParseDobValue(Get(old, dob_key.key)).ok) =>
                  \A i \in 1..Len(args'.add) :
                     LET field == StripTitle(args'.add[i])
                     IN  /\ DobLabelled(field) => Get(new, field) = Get(old, dob_key.key)
                         /\ AgeLabelled(field) =>
                              Get(new, field) =
                                V_int(AgeOn(ParseDobValue(Get(old, dob_key.key)).date, today))]_vars

\* C10: an update that removes a label and does not add it leaves no key equal
\* to that label ignoring case in any record, even when the record held
\* several keys differing only in case.
C10_RemovedLabelGone ==
    [][UpdateDone =>
          \A i \in 1..Len(args'.remove) :
             ~Mentioned(Strip(args'.remove[i]), args'.add) =>
                \A r \in 1..Len(last_generated'.data) :
                   \A j \in 1..Len(last_generated'.data[r]) :
                      Lower(last_generated'.data[r][j].k) # Lower(Strip(args'.remove[i]))]_vars

====
